---------------------------- MODULE Spec2Model ----------------------------
(***************************************************************************)
(* Model of the text-locator core of pdf-agent-mcp (src/src/index.ts):     *)
(*   - parsePageRange / parseSinglePageRange: page-range resolution;       *)
(*   - searchPdfText / searchWithTimeout / extractContext /                *)
(*     parseSearchPattern / extractTextFromPdf: the bounded page search.   *)
(*                                                                         *)
(* JavaScript strings are modelled as sequences of one-character strings,  *)
(* so that trimming, splitting and parseInt are computed character by      *)
(* character as the runtime computes them.                                 *)
(***************************************************************************)
EXTENDS Integers, Sequences, FiniteSets, TLC

VARIABLES
    pc,              \* position of the modelled call
    rangeStr,        \* parsePageRange: argument rangeStr
    totalPages,      \* pdfDoc.getPageCount()
    rangeResult,     \* what parsePageRange returned or threw
    pageNumbers,     \* searchPdfText: argument pageNumbers
    searchPattern,   \* searchPdfText: argument searchPattern
    contextChars,    \* searchPdfText: argument contextChars
    maxResults,      \* searchPdfText: argument maxResults, Undefined when not given
    maxPagesScanned, \* searchPdfText: argument maxPagesScanned, Undefined when not given
    regex,           \* searchPdfText: the compiled pattern
    pageTexts,       \* searchPdfText: what extractTextFromPdf returned
    i,               \* searchPdfText: the loop index (0-based)
    pagesScanned,    \* searchPdfText: local pagesScanned
    totalMatches,    \* searchPdfText: local totalMatches
    matches,         \* searchPdfText: local matches
    errors,          \* searchPdfText: local errors
    promise,         \* the promise of the running searchWithTimeout
    timerArmed,      \* searchWithTimeout: setTimeout done and not cleared
    deadlinePassed,  \* timeoutMs have elapsed since that setTimeout
    overdue,         \* history: pages whose deadline passed during their enumeration
    outcome,         \* what searchPdfText returned
    response,        \* handleToolCall: what the search_pdf case returned
    scanText,        \* extractContext, searchWithTimeout: argument text
    matchSpan,       \* extractContext: arguments matchStart and matchEnd
    snippet          \* what extractContext returned

rangeVars == <<rangeStr, rangeResult>>

inputVars == <<pageNumbers, searchPattern, contextChars, maxResults, maxPagesScanned>>

loopVars == <<i, pagesScanned, totalMatches, matches, errors>>

timerVars == <<promise, timerArmed, deadlinePassed, overdue>>

searchVars == <<inputVars, regex, pageTexts, loopVars, timerVars, outcome>>

contextVars == <<scanText, matchSpan, snippet>>

vars == <<pc, totalPages, rangeVars, searchVars, response, contextVars>>

-----------------------------------------------------------------------------
(* Bounds of the model.                                                    *)

MaxPages == 10
MaxSegments == 3
MaxDocPages == 3
MaxLimit == 2
MaxTextLen == 5
MaxContext == 3

-----------------------------------------------------------------------------
(* JavaScript string primitives.                                           *)

Range(s) == {s[k] : k \in 1..Len(s)}

IsWhitespace(c) == c \in {" ", "\t"}

RECURSIVE trimStart(_)
trimStart(s) ==
    IF s # <<>> /\ IsWhitespace(Head(s)) THEN trimStart(Tail(s)) ELSE s

RECURSIVE trimEnd(_)
trimEnd(s) ==
    IF s # <<>> /\ IsWhitespace(s[Len(s)])
    THEN trimEnd(SubSeq(s, 1, Len(s) - 1))
    ELSE s

\* String.prototype.trim
trim(s) == trimEnd(trimStart(s))

\* String.prototype.includes, for a one-character needle
includes(s, c) == c \in Range(s)

\* Index of the first occurrence of c in s, 0 when there is none
RECURSIVE indexOf(_, _, _)
indexOf(s, c, from) ==
    IF from > Len(s) THEN 0
    ELSE IF s[from] = c THEN from
    ELSE indexOf(s, c, from + 1)

\* String.prototype.split(sep): every piece between separators, empty pieces kept
RECURSIVE split(_, _)
split(s, sep) ==
    LET k == indexOf(s, sep, 1) IN
    IF k = 0 THEN <<s>>
    ELSE <<SubSeq(s, 1, k - 1)>> \o split(SubSeq(s, k + 1, Len(s)), sep)

\* String.prototype.split(sep, limit): the first `limit` pieces of the full split
splitLimit(s, sep, limit) ==
    LET all == split(s, sep) IN
    SubSeq(all, 1, IF Len(all) < limit THEN Len(all) ELSE limit)

\* Array.prototype.filter
RECURSIVE filterNonEmpty(_)
filterNonEmpty(ss) ==
    IF ss = <<>> THEN <<>>
    ELSE IF Len(Head(ss)) > 0 THEN <<Head(ss)>> \o filterNonEmpty(Tail(ss))
    ELSE filterNonEmpty(Tail(ss))

DigitChars == {"0", "1", "2", "3", "4", "5", "6", "7", "8", "9"}

DigitValue(c) ==
    CASE c = "0" -> 0 [] c = "1" -> 1 [] c = "2" -> 2 [] c = "3" -> 3
      [] c = "4" -> 4 [] c = "5" -> 5 [] c = "6" -> 6 [] c = "7" -> 7
      [] c = "8" -> 8 [] c = "9" -> 9

\* A JavaScript number that came out of parseInt: NaN, or an integer value
NaN == [nan |-> TRUE, value |-> 0]

Num(n) == [nan |-> FALSE, value |-> n]

isNaN(v) == v.nan

\* The longest prefix of s made of decimal digits
RECURSIVE digitPrefix(_)
digitPrefix(s) ==
    IF s # <<>> /\ Head(s) \in DigitChars
    THEN <<Head(s)>> \o digitPrefix(Tail(s))
    ELSE <<>>

RECURSIVE digitsValue(_, _)
digitsValue(ds, acc) ==
    IF ds = <<>> THEN acc
    ELSE digitsValue(Tail(ds), 10 * acc + DigitValue(Head(ds)))

\* parseInt(s, 10): skips leading whitespace, reads an optional sign and the
\* longest run of digits, ignores whatever follows; NaN when no digit is read.
parseInt(s) ==
    LET t == trimStart(s)
        signed == t # <<>> /\ Head(t) \in {"+", "-"}
        neg == t # <<>> /\ Head(t) = "-"
        body == IF signed THEN Tail(t) ELSE t
        ds == digitPrefix(body)
    IN  IF ds = <<>> THEN NaN
        ELSE IF neg THEN Num(0 - digitsValue(ds, 0))
        ELSE Num(digitsValue(ds, 0))

\* Array.prototype.sort((a, b) => a - b), as an insertion sort
RECURSIVE insertAsc(_, _)
insertAsc(x, s) ==
    IF s = <<>> THEN <<x>>
    ELSE IF x - Head(s) < 0 THEN <<x>> \o s
    ELSE <<Head(s)>> \o insertAsc(x, Tail(s))

\* sortAsc without the sort: the Set's insertion order is returned as it is
sortAscOmitted(s) == s

RECURSIVE sortAsc(_)
sortAsc(s) ==
    IF s = <<>> THEN <<>> ELSE insertAsc(Head(s), sortAsc(Tail(s)))

\* setAdd on an array instead of a Set: a page already present is added again
setAddDuplicating(s, x) == Append(s, x)

\* Set.prototype.add on a Set kept in insertion order
setAdd(s, x) == IF x \in Range(s) THEN s ELSE Append(s, x)

RECURSIVE setAddAll(_, _)
setAddAll(s, xs) ==
    IF xs = <<>> THEN s ELSE setAddAll(setAdd(s, Head(xs)), Tail(xs))

-----------------------------------------------------------------------------
(* parseSinglePageRange and parsePageRange.                                *)
(* A call result is a record: ok, pages on success; error (the kind of the *)
(* thrown Error), segment (the segment text quoted in the message) and     *)
(* cause (the wrapped Error of parseSinglePageRange) on failure.           *)

Returned(pages) ==
    [ok |-> TRUE, pages |-> pages, error |-> "none", segment |-> <<>>, cause |-> "none"]

Thrown(kind, segment, cause) ==
    [ok |-> FALSE, pages |-> <<>>, error |-> kind, segment |-> segment, cause |-> cause]

\* for (let i = start; i <= end; i++) pages.push(i)
pagesFromTo(start, end) ==
    IF start > end THEN <<>> ELSE [k \in 1..(end - start + 1) |-> start + k - 1]

min(a, b) == IF a < b THEN a ELSE b

\* pageNumberInvalid without the upper bound
pageNumberInvalidNoUpperBound(pageNum, total) ==
    isNaN(pageNum) \/ pageNum.value < 1

\* line 91: the single-page guard
pageNumberInvalid(pageNum, total) ==
    isNaN(pageNum) \/ pageNum.value < 1 \/ pageNum.value > total

\* lines 103 and 110: the guard of a start or end token that is present
boundInvalid(bound) == isNaN(bound) \/ bound.value < 1

\* startAfterEnd with the check left out
startAfterEndUnchecked(start, end) == FALSE

\* line 115
startAfterEnd(start, end) == start > end

\* line 119
startBeyondDocument(start, total) == start > total

\* clampEnd without the clamp
clampEndOmitted(end, total) == end

\* line 123
clampEnd(end, total) == min(end, total)

\* defaultStart as a zero-based first page
defaultStartZero(total) == 0

\* lines 98-99: the values used for a token that is missing
defaultStart(total) == 1

defaultEnd(total) == total

parseSinglePageRange(segment, total) ==
    LET trimmed == trim(segment) IN
    IF trimmed = <<>> THEN Thrown("EmptySegment", segment, "none")
    ELSE IF ~includes(trimmed, ":") THEN
        LET pageNum == parseInt(trimmed) IN
        IF pageNumberInvalid(pageNum, total)
        THEN Thrown("InvalidPageNumber", segment, "none")
        ELSE Returned(<<pageNum.value>>)
    ELSE
        LET parts == splitLimit(trimmed, ":", 2)
            startStr == parts[1]
            endStr == parts[2]
            hasStart == startStr # <<>> /\ trim(startStr) # <<>>
            hasEnd == endStr # <<>> /\ trim(endStr) # <<>>
            startNum == parseInt(trim(startStr))
            endNum == parseInt(trim(endStr))
            start == IF hasStart THEN startNum.value ELSE defaultStart(total)
            end == IF hasEnd THEN endNum.value ELSE defaultEnd(total)
        IN  IF hasStart /\ boundInvalid(startNum)
            THEN Thrown("InvalidStart", segment, "none")
            ELSE IF hasEnd /\ boundInvalid(endNum)
            THEN Thrown("InvalidEnd", segment, "none")
            ELSE IF startAfterEnd(start, end)
            THEN Thrown("RangeInverted", segment, "none")
            ELSE IF startBeyondDocument(start, total)
            THEN Thrown("RangeOutOfBounds", segment, "none")
            ELSE Returned(pagesFromTo(start, clampEnd(end, total)))

\* parseSegments that skips an invalid segment instead of rethrowing
RECURSIVE parseSegmentsSkippingInvalid(_, _, _, _)
parseSegmentsSkippingInvalid(segments, k, allPages, total) ==
    IF k > Len(segments) THEN Returned(sortAsc(allPages))
    ELSE LET r == parseSinglePageRange(segments[k], total) IN
         parseSegmentsSkippingInvalid(segments, k + 1,
                                      setAddAll(allPages, r.pages), total)

\* The for-of loop of parsePageRange over segments[k..], allPages being the Set
RECURSIVE parseSegments(_, _, _, _)
parseSegments(segments, k, allPages, total) ==
    IF k > Len(segments) THEN Returned(sortAsc(allPages))
    ELSE LET r == parseSinglePageRange(segments[k], total) IN
         IF ~r.ok THEN Thrown("InvalidSegment", segments[k], r.error)
         ELSE parseSegments(segments, k + 1, setAddAll(allPages, r.pages), total)

splitSegments(range) ==
    filterNonEmpty([k \in 1..Len(split(range, ",")) |-> trim(split(range, ",")[k])])

parsePageRange(str, total) ==
    LET range == trim(str) IN
    IF range = <<>> THEN Thrown("EmptyRange", <<>>, "none")
    ELSE LET segments == splitSegments(range) IN
         IF Len(segments) = 0 THEN Thrown("EmptyRangeAfterParsing", <<>>, "none")
         ELSE parseSegments(segments, 1, <<>>, total)

----------------------------------------------------------------------------------------------------------------------------------------
(* Regular expressions. The engine (RegExp) is a collaborator of the       *)
(* program; it is modelled for the patterns the search is run on: a body   *)
(* is a sequence of atoms (a literal character, an escaped character, \d   *)
(* or '.'), each with an optional greedy quantifier '*', '+' or '?'.       *)

UpperCase ==
    << "A", "B", "C", "D", "E", "F", "G", "H", "I", "J", "K", "L", "M",
       "N", "O", "P", "Q", "R", "S", "T", "U", "V", "W", "X", "Y", "Z" >>

LowerCase ==
    << "a", "b", "c", "d", "e", "f", "g", "h", "i", "j", "k", "l", "m",
       "n", "o", "p", "q", "r", "s", "t", "u", "v", "w", "x", "y", "z" >>

toLowerCase(c) ==
    IF c \in Range(UpperCase) THEN LowerCase[indexOf(UpperCase, c, 1)] ELSE c

\* The characters escapeRegExp puts a backslash before (line 141)
MetaChars == {".", "*", "+", "?", "^", "$", "{", "}", "(", ")", "|", "[", "]", "\\"}

\* The flag letters of the wrapper syntax (line 135)
FlagChars == {"g", "i", "m", "u", "y"}

Quantifiers == {"*", "+", "?"}

Unbounded == 0 - 1

InvalidRegExp == [ok |-> FALSE, atoms |-> <<>>]

quantified(base, q) ==
    [kind |-> base.kind, ch |-> base.ch,
     least |-> IF q \in {"*", "?"} THEN 0 ELSE 1,
     most |-> IF q \in {"*", "+"} THEN Unbounded ELSE 1]

\* The atoms of a regex body; not ok where the engine raises a SyntaxError
RECURSIVE parseAtoms(_)
parseAtoms(src) ==
    IF src = <<>> THEN [ok |-> TRUE, atoms |-> <<>>]
    ELSE
        LET c == Head(src)
            escaped == c = "\\"
            width == IF escaped THEN 2 ELSE 1
        IN  IF escaped /\ Len(src) < 2 THEN InvalidRegExp           \* \ at end of pattern
            ELSE IF ~escaped /\ c \in Quantifiers THEN InvalidRegExp \* nothing to repeat
            ELSE IF ~escaped /\ c \in {"(", ")", "["} THEN InvalidRegExp \* unterminated
            ELSE
                LET base == IF escaped
                            THEN IF src[2] = "d"
                                 THEN [kind |-> "digit", ch |-> "d"]
                                 ELSE [kind |-> "char", ch |-> src[2]]
                            ELSE IF c = "."
                                 THEN [kind |-> "any", ch |-> "."]
                                 ELSE [kind |-> "char", ch |-> c]
                    rest0 == SubSeq(src, width + 1, Len(src))
                    hasQ == rest0 # <<>> /\ Head(rest0) \in Quantifiers
                    q == IF hasQ THEN Head(rest0) ELSE ""
                    tail == parseAtoms(IF hasQ THEN Tail(rest0) ELSE rest0)
                IN  IF tail.ok
                    THEN [ok |-> TRUE, atoms |-> <<quantified(base, q)>> \o tail.atoms]
                    ELSE InvalidRegExp

hasFlag(flags, f) == f \in Range(flags)

\* A flag given twice is a SyntaxError
flagsValid(flags) ==
    /\ Range(flags) \subseteq FlagChars
    /\ \A a, b \in 1..Len(flags) : flags[a] = flags[b] => a = b

\* new RegExp(source, flags)
newRegExp(source, flags) ==
    LET parsed == parseAtoms(source) IN
    [ok |-> parsed.ok /\ flagsValid(flags),
     source |-> source, flags |-> flags, atoms |-> parsed.atoms]

atomMatches(atom, c, ignoreCase) ==
    CASE atom.kind = "char" ->
            IF ignoreCase THEN toLowerCase(c) = toLowerCase(atom.ch) ELSE c = atom.ch
      [] atom.kind = "digit" -> c \in DigitChars
      [] atom.kind = "any" -> c \notin {"\n", "\r"}

\* Number of consecutive characters from offset pos on that the atom accepts
RECURSIVE runLength(_, _, _, _)
runLength(atom, text, pos, ignoreCase) ==
    IF pos < Len(text) /\ atomMatches(atom, text[pos + 1], ignoreCase)
    THEN 1 + runLength(atom, text, pos + 1, ignoreCase)
    ELSE 0

\* Backtracking match of atoms[k..] at offset pos: the end offset, or -1.
\* A quantified atom takes as many characters as it can and gives back one
\* at a time.
RECURSIVE matchAtoms(_, _, _, _, _)
RECURSIVE matchRepeat(_, _, _, _, _, _)
matchAtoms(atoms, k, text, pos, ignoreCase) ==
    IF k > Len(atoms) THEN pos
    ELSE LET run == runLength(atoms[k], text, pos, ignoreCase)
             take == IF atoms[k].most = 1 THEN min(run, 1) ELSE run
         IN  matchRepeat(atoms, k, text, pos, ignoreCase, take)

matchRepeat(atoms, k, text, pos, ignoreCase, n) ==
    IF n < atoms[k].least THEN 0 - 1
    ELSE LET e == matchAtoms(atoms, k + 1, text, pos + n, ignoreCase) IN
         IF e # 0 - 1 THEN e
         ELSE matchRepeat(atoms, k, text, pos, ignoreCase, n - 1)

NoMatch == [found |-> FALSE, index |-> 0, end |-> 0]

\* The leftmost match that starts at offset p or later
RECURSIVE matchFrom(_, _, _)
matchFrom(re, text, p) ==
    IF p > Len(text) THEN NoMatch
    ELSE LET e == matchAtoms(re.atoms, 1, text, p, hasFlag(re.flags, "i")) IN
         IF e # 0 - 1 THEN [found |-> TRUE, index |-> p, end |-> e]
         ELSE IF hasFlag(re.flags, "y") THEN NoMatch
         ELSE matchFrom(re, text, p + 1)

\* RegExp.prototype.exec with the lastIndex of the RegExp: a global or sticky
\* one starts at lastIndex, any other at 0
exec(re, text, lastIndex) ==
    IF hasFlag(re.flags, "g") \/ hasFlag(re.flags, "y")
    THEN matchFrom(re, text, lastIndex)
    ELSE matchFrom(re, text, 0)

\* lastIndexAfter moving one character past the start of the match
lastIndexAfterByOne(re, m, lastIndex) == IF m.found THEN m.index + 1 ELSE 0

\* lastIndex after exec returned m: the end of the match for a global or
\* sticky one (0 after a failure), untouched otherwise
lastIndexAfter(re, m, lastIndex) ==
    IF hasFlag(re.flags, "g") \/ hasFlag(re.flags, "y")
    THEN (IF m.found THEN m.end ELSE 0)
    ELSE lastIndex

-----------------------------------------------------------------------------
(* parseSearchPattern, extractContext, searchWithTimeout's enumeration,    *)
(* extractTextFromPdf.                                                     *)

RECURSIVE lastIndexOf(_, _, _)
lastIndexOf(s, c, from) ==
    IF from < 1 THEN 0
    ELSE IF s[from] = c THEN from
    ELSE lastIndexOf(s, c, from - 1)

\* line 135: pattern.match(/^\/(.+)\/([gimuy]*)$/), the body being greedy
isWrapped(pattern) ==
    LET k == lastIndexOf(pattern, "/", Len(pattern)) IN
    /\ Len(pattern) >= 3
    /\ pattern[1] = "/"
    /\ k >= 3
    /\ \A j \in (k + 1)..Len(pattern) : pattern[j] \in FlagChars
    /\ \A j \in 2..(k - 1) : pattern[j] \notin {"\n", "\r"}

wrappedBody(pattern) ==
    SubSeq(pattern, 2, lastIndexOf(pattern, "/", Len(pattern)) - 1)

wrappedFlags(pattern) ==
    SubSeq(pattern, lastIndexOf(pattern, "/", Len(pattern)) + 1, Len(pattern))

\* escapeRegExp leaving the pattern as it is
escapeRegExpOmitted(pattern) == pattern

\* line 141: pattern.replace(/[.*+?^${}()|[\]\\]/g, '\\$&')
RECURSIVE escapeRegExp(_)
escapeRegExp(pattern) ==
    IF pattern = <<>> THEN <<>>
    ELSE (IF Head(pattern) \in MetaChars THEN <<"\\", Head(pattern)>>
          ELSE <<Head(pattern)>>) \o escapeRegExp(Tail(pattern))

\* The flags of a literal pattern (line 142)
LiteralFlags == <<"g", "i">>

\* ok is FALSE where parseSearchPattern throws "Invalid search pattern"
parseSearchPattern(pattern) ==
    IF isWrapped(pattern)
    THEN LET r == newRegExp(wrappedBody(pattern), wrappedFlags(pattern)) IN
         [ok |-> r.ok, regex |-> r, isRegex |-> TRUE]
    ELSE LET r == newRegExp(escapeRegExp(pattern), LiteralFlags) IN
         [ok |-> r.ok, regex |-> r, isRegex |-> FALSE]

max(a, b) == IF a > b THEN a ELSE b

\* String.prototype.slice(start, end) for 0 <= start, end <= length
slice(text, start, end) == SubSeq(text, start + 1, end)

\* extractContext returning the offsets of the match in the text
extractContextAbsolute(text, matchStart, matchEnd, ctx) ==
    LET start == max(0, matchStart - ctx)
        end == min(Len(text), matchEnd + ctx)
    IN  [snippet |-> slice(text, start, end),
         matchStartInSnippet |-> matchStart,
         matchEndInSnippet |-> matchEnd]

extractContext(text, matchStart, matchEnd, ctx) ==
    LET start == max(0, matchStart - ctx)
        end == min(Len(text), matchEnd + ctx)
    IN  [snippet |-> slice(text, start, end),
         matchStartInSnippet |-> matchStart - start,
         matchEndInSnippet |-> matchEnd - start]

\* line 178: the cap on the matches of one page
MatchCap == 10000

\* line 174: the RegExp the enumeration runs, with the g flag forced
globalRegex(re) ==
    newRegExp(re.source,
              IF hasFlag(re.flags, "g") THEN re.flags
              ELSE re.flags \o <<"g">>)

\* line 178
capReached(collected) == Len(collected) > MatchCap

\* lines 176-181: the while loop, from the given lastIndex on. Once exec
\* leaves lastIndex where it was, every later iteration repeats the same
\* match, and the loop runs until the cap breaks it.
RECURSIVE enumerate(_, _, _, _)
enumerate(re, text, lastIndex, collected) ==
    LET m == exec(re, text, lastIndex)
        next == lastIndexAfter(re, m, lastIndex)
        pushed == Append(collected, [index |-> m.index, end |-> m.end])
    IN  IF ~m.found THEN collected
        ELSE IF capReached(pushed) THEN pushed
        ELSE IF next = lastIndex
        THEN pushed \o [k \in 1..(MatchCap - Len(pushed) + 1) |->
                            [index |-> m.index, end |-> m.end]]
        ELSE enumerate(re, text, next, pushed)

\* The matches searchWithTimeout resolves with
enumerateMatches(text, re) == enumerate(globalRegex(re), text, 0, <<>>)

\* Template-literal formatting of a non-negative integer
RECURSIVE numberToString(_)
numberToString(n) ==
    IF n < 10 THEN <<CHOOSE c \in DigitChars : DigitValue(c) = n>>
    ELSE numberToString(n \div 10) \o numberToString(n % 10)

\* line 211: the text extractTextFromPdf produces for a page
pagePlaceholder(n) ==
    << "[", "P", "a", "g", "e", " " >> \o numberToString(n) \o
    << " ", "-", " ", "T", "e", "x", "t", " ", "e", "x", "t", "r", "a", "c",
       "t", "i", "o", "n", " ", "l", "i", "m", "i", "t", "e", "d", " ", "i",
       "n", " ", "C", "l", "o", "u", "d", "f", "l", "a", "r", "e", " ", "W",
       "o", "r", "k", "e", "r", "s", " ", "e", "n", "v", "i", "r", "o", "n",
       "m", "e", "n", "t", "]" >>

\* validPages with page < totalPages for page <= totalPages
RECURSIVE validPagesBelowLast(_, _)
validPagesBelowLast(pageNums, total) ==
    IF pageNums = <<>> THEN <<>>
    ELSE IF Head(pageNums) >= 1 /\ Head(pageNums) < total
    THEN <<Head(pageNums)>> \o validPagesBelowLast(Tail(pageNums), total)
    ELSE validPagesBelowLast(Tail(pageNums), total)

\* line 197: pageNumbers.filter(page => page >= 1 && page <= totalPages)
RECURSIVE validPages(_, _)
validPages(pageNums, total) ==
    IF pageNums = <<>> THEN <<>>
    ELSE IF Head(pageNums) >= 1 /\ Head(pageNums) <= total
    THEN <<Head(pageNums)>> \o validPages(Tail(pageNums), total)
    ELSE validPages(Tail(pageNums), total)

\* extractTextFromPdf once the document is loaded: ok is FALSE where it
\* throws "No valid pages found"
extractTextFromPdf(pageNums, total) ==
    LET valid == validPages(pageNums, total) IN
    [ok |-> Len(valid) > 0,
     texts |-> [k \in 1..Len(valid) |-> pagePlaceholder(valid[k])]]

-----------------------------------------------------------------------------
(* Range expressions the resolver is run on.                               *)

\* Page tokens: missing, in and out of the document, zero, negative, padded,
\* and tokens that only begin with digits
Tokens ==
    { <<>>, <<"0">>, <<"1">>, <<"2">>, <<"3">>, <<"5">>, <<"1", "0">>,
      <<"1", "0", "0">>, <<"3", "x">>, <<"2", ".", "5">>, <<"x">>, <<"-", "1">>,
      <<" ", "2", " ">>, <<"0", "4">> }

\* Every single segment over the tokens: "N", "A:B", "A:", ":B", ":", and
\* segments with a second ':'
SingleSegments ==
    Tokens
    \cup {a \o <<":">> \o b : a, b \in Tokens}
    \cup {a \o <<":">> \o b \o <<":">> \o c : a, b, c \in {<<"1">>, <<"3">>, <<>>}}

\* The segments that multi-segment expressions are built from
ListSegments ==
    { <<>>, <<"2">>, <<"1", ":", "3">>, <<"2", ":", "4">>, <<"3", ":">>,
      <<"4", ":", "2">>, <<" ", "3", "x">> }

\* Array.prototype.join(",")
RECURSIVE join(_)
join(ss) ==
    IF ss = <<>> THEN <<>>
    ELSE IF Len(ss) = 1 THEN ss[1]
    ELSE ss[1] \o <<",">> \o join(Tail(ss))

RangeExpressions ==
    SingleSegments
    \cup {join(f) : f \in UNION {[1..n -> ListSegments] : n \in 2..MaxSegments}}

PageCounts == 0..MaxPages

NoResult == Thrown("pending", <<>>, "none")

-----------------------------------------------------------------------------
(* The resolver as a state machine: one call of parsePageRange.            *)

\* An optional argument that was not given; falsy, like a limit of 0
Undefined == 0

NoRegExp == newRegExp(<<>>, <<>>)

NoPromise == [state |-> "none", matches |-> <<>>, reason |-> "none"]

NoOutcome ==
    [matches |-> <<>>, errors |-> <<>>, pagesScanned |-> 0,
     completed |-> FALSE, stoppedReason |-> "pending"]

\* The locals of searchPdfText before the call (lines 343-354)
SearchIdle ==
    /\ regex = NoRegExp
    /\ pageTexts = <<>>
    /\ i = 0
    /\ pagesScanned = 0
    /\ totalMatches = 0
    /\ matches = <<>>
    /\ errors = <<>>
    /\ promise = NoPromise
    /\ timerArmed = FALSE
    /\ deadlinePassed = FALSE
    /\ overdue = {}
    /\ outcome = NoOutcome

NoSpan == [matchStart |-> 0, matchEnd |-> 0]

NoSnippet == [snippet |-> <<>>, matchStartInSnippet |-> 0, matchEndInSnippet |-> 0]

\* No tool response yet, no call of extractContext on its own
ContextIdle ==
    /\ response = "none"
    /\ scanText = <<>>
    /\ matchSpan = NoSpan
    /\ snippet = NoSnippet

InitRange ==
    /\ pc = "range_call"
    /\ rangeStr \in RangeExpressions
    /\ totalPages \in PageCounts
    /\ rangeResult = NoResult
    /\ pageNumbers = <<>>
    /\ searchPattern = <<>>
    /\ contextChars = 0
    /\ maxResults = Undefined
    /\ maxPagesScanned = Undefined
    /\ SearchIdle
    /\ ContextIdle

\* handleToolCall, lines 522 and 567: parsePageRange(page_range, totalPages)
CallParsePageRange ==
    /\ pc = "range_call"
    /\ rangeResult' = parsePageRange(rangeStr, totalPages)
    /\ pc' = "range_done"
    /\ UNCHANGED <<rangeStr, totalPages, searchVars, response, contextVars>>

NextRange == CallParsePageRange

SpecRange == InitRange /\ [][NextRange]_vars

-----------------------------------------------------------------------------
(* Searches the engine is run on.                                          *)

\* Literal patterns with several matches on a page ("t"), one match on every
\* page ("page"), matches on one page only ("2"); a regex without the g flag
\* (/\d+/); regexes that do not compile (/[/, and /t/gg with a repeated flag)
SearchPatterns ==
    { <<"t">>, <<"p", "a", "g", "e">>, <<"2">>, <<"/", "\\", "d", "+", "/">>,
      <<"/", "[", "/">>, <<"/", "t", "/", "g", "g">> }

\* SearchPdfSchema, line 28: context_chars between 10 and 1000, default 150
ContextChoices == {10, 150}

\* SearchPdfSchema, lines 26-27: a limit is absent or at least 1
LimitChoices == {Undefined} \cup 1..MaxLimit

\* The ascending sequence of the elements of a set of integers
RECURSIVE ascending(_)
ascending(S) ==
    IF S = {} THEN <<>>
    ELSE LET least == CHOOSE x \in S : \A y \in S : x <= y IN
         <<least>> \o ascending(S \ {least})

\* What parsePageRange can return on a document of `total` pages: the
\* non-empty ascending sequences of pages of the document
ResolvedPageSets(total) == {ascending(S) : S \in (SUBSET (1..total)) \ {{}}}

-----------------------------------------------------------------------------
(* searchPdfText as a state machine. A step is a piece of code that runs   *)
(* without returning to the event loop. The executor of searchWithTimeout  *)
(* (lines 165-189) is such a piece: it runs from setTimeout through the    *)
(* while loop to clearTimeout and resolve, or to the catch, in one go.     *)
(* Wall-clock time passes meanwhile (DeadlineElapses), but a timer         *)
(* callback is run by the event loop, hence only between such pieces.      *)

InitSearch ==
    /\ pc = "search_call"
    /\ rangeStr = <<>>
    /\ rangeResult = NoResult
    /\ totalPages \in 1..MaxDocPages
    /\ pageNumbers \in ResolvedPageSets(totalPages)
    /\ searchPattern \in SearchPatterns
    /\ contextChars \in ContextChoices
    /\ maxResults \in LimitChoices
    /\ maxPagesScanned \in LimitChoices
    /\ SearchIdle
    /\ ContextIdle

\* pageNum taken from the end of pageNumbers
pageNumFromEnd == pageNumbers[Len(pageNumbers) - i]

pageNum == pageNumbers[i + 1]

pageText == pageTexts[i + 1]

PageError(page, message) == [page |-> page, message |-> message]

\* line 423: the aggregate error of the outer catch
GeneralError == [page |-> 0, message |-> "General error: Failed to extract text"]

Outcome(ms, es, scanned, completed, reason) ==
    [matches |-> ms, errors |-> es, pagesScanned |-> scanned,
     completed |-> completed, stoppedReason |-> reason]

\* CallParseSearchPattern going on to the extraction whatever the pattern
CallParseSearchPatternLenient ==
    /\ pc = "search_call"
    /\ regex' = parseSearchPattern(searchPattern).regex
    /\ pc' = "extract"
    /\ UNCHANGED <<totalPages, rangeVars, contextVars, response, inputVars,
                   pageTexts, loopVars, timerVars, outcome>>

\* line 342: parseSearchPattern throws out of searchPdfText, or the locals
\* are initialised
CallParseSearchPattern ==
    /\ pc = "search_call"
    /\ LET r == parseSearchPattern(searchPattern) IN
       IF r.ok
       THEN regex' = r.regex /\ pc' = "extract"
       ELSE regex' = regex /\ pc' = "threw"
    /\ UNCHANGED <<totalPages, rangeVars, contextVars, response, inputVars, pageTexts, loopVars,
                   timerVars, outcome>>

\* returnFatal with completed = true
returnFatalCompleted ==
    /\ errors' = Append(errors, GeneralError)
    /\ outcome' = Outcome(matches, errors', pagesScanned, TRUE, "none")
    /\ pc' = "returned"
    /\ UNCHANGED <<pageTexts, i, pagesScanned, totalMatches, matches>>

\* lines 422-429: the outer catch
returnFatal ==
    /\ errors' = Append(errors, GeneralError)
    /\ outcome' = Outcome(matches, errors', pagesScanned, FALSE, "none")
    /\ pc' = "returned"
    /\ UNCHANGED <<pageTexts, i, pagesScanned, totalMatches, matches>>

\* line 357, extractTextFromPdf returning (or throwing for want of a valid page)
CallExtractText ==
    /\ pc = "extract"
    /\ LET r == extractTextFromPdf(pageNumbers, totalPages) IN
       IF r.ok
       THEN /\ pageTexts' = r.texts
            /\ pc' = "loop"
            /\ UNCHANGED <<loopVars, outcome>>
       ELSE returnFatal
    /\ UNCHANGED <<totalPages, rangeVars, contextVars, response, inputVars, regex, timerVars>>

\* line 357 with lines 194 and 220-221: PDFDocument.load rejects
ExtractTextFails ==
    /\ pc = "extract"
    /\ returnFatal
    /\ UNCHANGED <<totalPages, rangeVars, contextVars, response, inputVars, regex, timerVars>>

\* line 359
loopCondition == i < Len(pageTexts) /\ i < Len(pageNumbers)

\* lines 359-365 and 165-174: the next page is taken, counted, and
\* searchWithTimeout arms its timer and starts to enumerate
StartPage ==
    /\ pc = "loop"
    /\ loopCondition
    /\ pagesScanned' = pagesScanned + 1
    /\ promise' = [state |-> "pending", matches |-> <<>>, reason |-> "none"]
    /\ timerArmed' = TRUE
    /\ deadlinePassed' = FALSE
    /\ pc' = "enumerating"
    /\ UNCHANGED <<totalPages, rangeVars, contextVars, response, inputVars, regex, pageTexts, i,
                   totalMatches, matches, errors, overdue, outcome>>

\* timeoutMs elapse while the while loop of lines 176-181 is still running
DeadlineElapses ==
    /\ pc = "enumerating"
    /\ timerArmed
    /\ ~deadlinePassed
    /\ deadlinePassed' = TRUE
    /\ overdue' = overdue \cup {pageNum}
    /\ UNCHANGED <<pc, totalPages, rangeVars, contextVars, response, inputVars, regex, pageTexts,
                   loopVars, promise, timerArmed, outcome>>

\* lines 176-184: the loop ends, clearTimeout, resolve(matches)
EnumerationCompletes ==
    /\ pc = "enumerating"
    /\ promise' = [state |-> "resolved",
                   matches |-> enumerateMatches(pageText, regex),
                   reason |-> "none"]
    /\ timerArmed' = FALSE
    /\ pc' = "awaiting"
    /\ UNCHANGED <<totalPages, rangeVars, contextVars, response, inputVars, regex, pageTexts,
                   loopVars, deadlinePassed, overdue, outcome>>

\* lines 185-188: the engine raises inside the try; clearTimeout, reject(error)
EnumerationThrows ==
    /\ pc = "enumerating"
    /\ promise' = [state |-> "rejected", matches |-> <<>>,
                   reason |-> "RegExp engine error"]
    /\ timerArmed' = FALSE
    /\ pc' = "awaiting"
    /\ UNCHANGED <<totalPages, rangeVars, contextVars, response, inputVars, regex, pageTexts,
                   loopVars, deadlinePassed, overdue, outcome>>

\* lines 166-168: the timer callback. The event loop runs it when the timer
\* is due, still armed, and no code is running. It is not a step of Next:
\* TimerCallbackNeverRunnable shows its guard false in every reachable state.
TimerCallback ==
    /\ pc # "enumerating"
    /\ timerArmed
    /\ deadlinePassed
    /\ promise' = IF promise.state = "pending"
                  THEN [state |-> "rejected", matches |-> <<>>,
                        reason |-> "Search operation timed out"]
                  ELSE promise
    /\ timerArmed' = FALSE
    /\ UNCHANGED <<pc, totalPages, rangeVars, contextVars, response, inputVars, regex, pageTexts,
                   loopVars, deadlinePassed, overdue, outcome>>

\* lines 368-378
snippetsOf(text, pageMatches, ctx) ==
    [k \in 1..Len(pageMatches) |->
        LET matchStart == pageMatches[k].index
            matchEnd == matchStart + (pageMatches[k].end - pageMatches[k].index)
            context == extractContext(text, matchStart, matchEnd, ctx)
        IN  [text |-> context.snippet,
             matchStart |-> context.matchStartInSnippet,
             matchEnd |-> context.matchEndInSnippet]]

\* stopOnMaxResults with > for >=
stopOnMaxResultsStrict(limit, total) == limit # Undefined /\ total > limit

\* line 390
stopOnMaxResults(limit, total) == limit # Undefined /\ total >= limit

\* line 400
stopOnMaxPages(limit, scanned) == limit # Undefined /\ scanned >= limit

\* ResumeResolved with the two stop checks in the other order
ResumeResolvedPagesFirst ==
    /\ pc = "awaiting"
    /\ promise.state = "resolved"
    /\ LET pageMatches == promise.matches
           hasMatches == Len(pageMatches) > 0
       IN  /\ matches' =
                IF hasMatches
                THEN Append(matches,
                            [page |-> pageNum, matchCount |-> Len(pageMatches),
                             snippets |-> snippetsOf(pageText, pageMatches, contextChars)])
                ELSE matches
           /\ totalMatches' =
                IF hasMatches THEN totalMatches + Len(pageMatches) ELSE totalMatches
    /\ IF stopOnMaxPages(maxPagesScanned, pagesScanned)
       THEN /\ outcome' = Outcome(matches', errors, pagesScanned, FALSE, "max_pages")
            /\ pc' = "returned"
            /\ i' = i
       ELSE IF stopOnMaxResults(maxResults, totalMatches')
       THEN /\ outcome' = Outcome(matches', errors, pagesScanned, FALSE, "max_results")
            /\ pc' = "returned"
            /\ i' = i
       ELSE /\ outcome' = outcome
            /\ pc' = "loop"
            /\ i' = i + 1
    /\ promise' = NoPromise
    /\ UNCHANGED <<totalPages, rangeVars, contextVars, response, inputVars, regex, pageTexts,
                   pagesScanned, errors, timerArmed, deadlinePassed, overdue>>

\* lines 365-408: the await resumes with the matches of the page
ResumeResolved ==
    /\ pc = "awaiting"
    /\ promise.state = "resolved"
    /\ LET pageMatches == promise.matches
           hasMatches == Len(pageMatches) > 0
       IN  /\ matches' =
                IF hasMatches
                THEN Append(matches,
                            [page |-> pageNum, matchCount |-> Len(pageMatches),
                             snippets |-> snippetsOf(pageText, pageMatches, contextChars)])
                ELSE matches
           /\ totalMatches' =
                IF hasMatches THEN totalMatches + Len(pageMatches) ELSE totalMatches
    /\ IF stopOnMaxResults(maxResults, totalMatches')
       THEN /\ outcome' = Outcome(matches', errors, pagesScanned, FALSE, "max_results")
            /\ pc' = "returned"
            /\ i' = i
       ELSE IF stopOnMaxPages(maxPagesScanned, pagesScanned)
       THEN /\ outcome' = Outcome(matches', errors, pagesScanned, FALSE, "max_pages")
            /\ pc' = "returned"
            /\ i' = i
       ELSE /\ outcome' = outcome
            /\ pc' = "loop"
            /\ i' = i + 1
    /\ promise' = NoPromise
    /\ UNCHANGED <<totalPages, rangeVars, contextVars, response, inputVars, regex, pageTexts,
                   pagesScanned, errors, timerArmed, deadlinePassed, overdue>>

\* ResumeRejected without the step to the next page: the page is taken again
ResumeRejectedRetrying ==
    /\ pc = "awaiting"
    /\ promise.state = "rejected"
    /\ errors' = Append(errors, PageError(pageNum, promise.reason))
    /\ i' = i
    /\ pc' = "loop"
    /\ promise' = NoPromise
    /\ UNCHANGED <<totalPages, rangeVars, contextVars, response, inputVars,
                   regex, pageTexts, pagesScanned, totalMatches, matches,
                   timerArmed, deadlinePassed, overdue, outcome>>

\* ResumeRejected with the results of the earlier pages dropped
ResumeRejectedDiscarding ==
    /\ pc = "awaiting"
    /\ promise.state = "rejected"
    /\ errors' = Append(errors, PageError(pageNum, promise.reason))
    /\ matches' = <<>>
    /\ totalMatches' = 0
    /\ i' = i + 1
    /\ pc' = "loop"
    /\ promise' = NoPromise
    /\ UNCHANGED <<totalPages, rangeVars, contextVars, response, inputVars,
                   regex, pageTexts, pagesScanned, timerArmed,
                   deadlinePassed, overdue, outcome>>

\* lines 410-412: the await throws; the error is recorded under the page
ResumeRejected ==
    /\ pc = "awaiting"
    /\ promise.state = "rejected"
    /\ errors' = Append(errors, PageError(pageNum, promise.reason))
    /\ i' = i + 1
    /\ pc' = "loop"
    /\ promise' = NoPromise
    /\ UNCHANGED <<totalPages, rangeVars, contextVars, response, inputVars, regex, pageTexts,
                   pagesScanned, totalMatches, matches, timerArmed,
                   deadlinePassed, overdue, outcome>>

\* LoopExit with stoppedReason 'completed', which the return type admits
LoopExitWithReason ==
    /\ pc = "loop"
    /\ ~loopCondition
    /\ outcome' = Outcome(matches, errors, pagesScanned, TRUE, "completed")
    /\ pc' = "returned"
    /\ UNCHANGED <<totalPages, rangeVars, contextVars, response, inputVars,
                   regex, pageTexts, loopVars, timerVars>>

\* lines 415-420: every page was taken
LoopExit ==
    /\ pc = "loop"
    /\ ~loopCondition
    /\ outcome' = Outcome(matches, errors, pagesScanned, TRUE, "none")
    /\ pc' = "returned"
    /\ UNCHANGED <<totalPages, rangeVars, contextVars, response, inputVars, regex, pageTexts,
                   loopVars, timerVars>>

\* handleToolCall, lines 577-584: the outcome is returned as the tool result
RespondWithResult ==
    /\ pc = "returned"
    /\ response = "none"
    /\ response' = "result"
    /\ UNCHANGED <<pc, totalPages, rangeVars, contextVars, searchVars>>

\* handleToolCall, lines 585-595: what searchPdfText threw is caught and an
\* error object is returned
RespondWithError ==
    /\ pc = "threw"
    /\ response = "none"
    /\ response' = "error"
    /\ UNCHANGED <<pc, totalPages, rangeVars, contextVars, searchVars>>

NextSearch ==
    \/ CallParseSearchPattern
    \/ CallExtractText
    \/ ExtractTextFails
    \/ StartPage
    \/ DeadlineElapses
    \/ EnumerationCompletes
    \/ EnumerationThrows
    \/ ResumeResolved
    \/ ResumeRejected
    \/ LoopExit
    \/ RespondWithResult
    \/ RespondWithError

SpecSearch == InitSearch /\ [][NextSearch]_vars

\* NextSearch with the timer callback as one more step
NextSearchWithTimer == NextSearch \/ TimerCallback

-----------------------------------------------------------------------------
(* One page scan on its own: parseSearchPattern, then searchWithTimeout on  *)
(* a text. extractTextFromPdf yields one fixed text per page, so the scan   *)
(* is also run here on texts of any content.                               *)

\* 'a.b and axb', 'p1 has 42 and 7', 'A.B a.b', 'aaa', 'x+y xy X+Y',
\* 'no digits' and the empty text
ScanTexts ==
    { <<"a", ".", "b", " ", "a", "n", "d", " ", "a", "x", "b">>,
      <<"p", "1", " ", "h", "a", "s", " ", "4", "2", " ", "a", "n", "d", " ", "7">>,
      <<"A", ".", "B", " ", "a", ".", "b">>,
      <<"a", "a", "a">>,
      <<"x", "+", "y", " ", "x", "y", " ", "X", "+", "Y">>,
      <<"n", "o", " ", "d", "i", "g", "i", "t", "s">>,
      <<>> }

\* Literal patterns: 'a.b', 'A.B', 'aa', 'x+y', 'and', '42', '/', 'a/b';
\* wrapper syntax: /\d+/g, /\d+/, /a.b/, /a.b/i, /\d*/ and /x*/g (which match
\* the empty string), /[/ (which does not compile), /\d+/y, /a*/
ScanPatterns ==
    { <<"a", ".", "b">>,
      <<"A", ".", "B">>,
      <<"a", "a">>,
      <<"x", "+", "y">>,
      <<"a", "n", "d">>,
      <<"4", "2">>,
      <<"/">>,
      <<"a", "/", "b">>,
      <<"/", "\\", "d", "+", "/", "g">>,
      <<"/", "\\", "d", "+", "/">>,
      <<"/", "a", ".", "b", "/">>,
      <<"/", "a", ".", "b", "/", "i">>,
      <<"/", "\\", "d", "*", "/">>,
      <<"/", "x", "*", "/", "g">>,
      <<"/", "[", "/">>,
      <<"/", "\\", "d", "+", "/", "y">>,
      <<"/", "a", "*", "/">> }

InitScan ==
    /\ pc = "scan_call"
    /\ scanText \in ScanTexts
    /\ searchPattern \in ScanPatterns
    /\ rangeStr = <<>>
    /\ rangeResult = NoResult
    /\ totalPages = 0
    /\ pageNumbers = <<>>
    /\ contextChars = 0
    /\ maxResults = Undefined
    /\ maxPagesScanned = Undefined
    /\ SearchIdle
    /\ response = "none"
    /\ matchSpan = NoSpan
    /\ snippet = NoSnippet

\* line 342
ScanCompile ==
    /\ pc = "scan_call"
    /\ LET r == parseSearchPattern(searchPattern) IN
       IF r.ok
       THEN regex' = r.regex /\ pc' = "scan_compiled"
       ELSE regex' = regex /\ pc' = "scan_threw"
    /\ UNCHANGED <<totalPages, rangeVars, contextVars, response, inputVars,
                   pageTexts, loopVars, timerVars, outcome>>

\* lines 164-190: searchWithTimeout(scanText, regex, timeoutMs), whose
\* executor runs to resolve(matches) without a break
ScanPage ==
    /\ pc = "scan_compiled"
    /\ promise' = [state |-> "resolved",
                   matches |-> enumerateMatches(scanText, regex),
                   reason |-> "none"]
    /\ pc' = "scan_done"
    /\ UNCHANGED <<totalPages, rangeVars, contextVars, response, inputVars,
                   regex, pageTexts, loopVars, timerArmed, deadlinePassed,
                   overdue, outcome>>

NextScan == ScanCompile \/ ScanPage

SpecScan == InitScan /\ [][NextScan]_vars

-----------------------------------------------------------------------------
(* Vocabulary of the properties of the resolver.                           *)

RangeDone == pc = "range_done"

\* s is a non-empty run of decimal digits
AllDigits(s) == s # <<>> /\ \A k \in 1..Len(s) : s[k] \in DigitChars

\* 10 to the power n
RECURSIVE Pow10(_)
Pow10(n) == IF n = 0 THEN 1 ELSE 10 * Pow10(n - 1)

\* The integer a run of decimal digits denotes, by positional weight
RECURSIVE DecimalValue(_)
DecimalValue(s) ==
    IF s = <<>> THEN 0
    ELSE DigitValue(Head(s)) * Pow10(Len(s) - 1) + DecimalValue(Tail(s))

\* Number of occurrences of c in s
RECURSIVE Count(_, _)
Count(s, c) ==
    IF s = <<>> THEN 0
    ELSE (IF Head(s) = c THEN 1 ELSE 0) + Count(Tail(s), c)

\* The text before and after the only ':' of an interval "A:B"
BeforeColon(s) == SubSeq(s, 1, indexOf(s, ":", 1) - 1)

AfterColon(s) == SubSeq(s, indexOf(s, ":", 1) + 1, Len(s))

\* rangeStr is one interval segment with exactly one ':'
IsInterval(s) == Count(s, ",") = 0 /\ Count(s, ":") = 1

\* rangeStr is the interval "A:B" with both tokens decimal integers
IsNumericInterval(s) ==
    IsInterval(s) /\ AllDigits(BeforeColon(s)) /\ AllDigits(AfterColon(s))

StartOf(s) == DecimalValue(BeforeColon(s))

EndOf(s) == DecimalValue(AfterColon(s))

StrictlyAscending(pages) ==
    \A k \in 1..(Len(pages) - 1) : pages[k] < pages[k + 1]

\* pages is the ascending sequence of exactly the integers lo..hi
IsRun(pages, lo, hi) ==
    /\ Len(pages) = hi - lo + 1
    /\ \A k \in 1..Len(pages) : pages[k] = lo + k - 1

\* The segments of the expression, as the resolver sees them
SegmentsOf(s) == splitSegments(trim(s))

SegmentValid(seg) == parseSinglePageRange(seg, totalPages).ok

SegmentPages(seg) == Range(parseSinglePageRange(seg, totalPages).pages)

\* Index of the first invalid segment, 0 when every segment is valid
FirstInvalid(segs) ==
    IF \A k \in 1..Len(segs) : SegmentValid(segs[k]) THEN 0
    ELSE CHOOSE k \in 1..Len(segs) :
            /\ ~SegmentValid(segs[k])
            /\ \A j \in 1..(k - 1) : SegmentValid(segs[j])

Orderings(n) == {f \in [1..n -> 1..n] : \A a, b \in 1..n : f[a] = f[b] => a = b}

-----------------------------------------------------------------------------
(* Properties of the resolver.                                             *)

\* C1: whenever parsePageRange returns, the returned sequence is strictly
\* ascending (hence free of duplicates) and every element lies in
\* 1..totalPages.
C1_AscendingWithinDocument ==
    (RangeDone /\ rangeResult.ok) =>
        /\ StrictlyAscending(rangeResult.pages)
        /\ \A k \in 1..Len(rangeResult.pages) :
              1 <= rangeResult.pages[k] /\ rangeResult.pages[k] <= totalPages

\* A resolution of overlapping, out-of-order segments: "2:4,1:3" gives 1..4
C1_Witness ==
    /\ RangeDone /\ rangeResult.ok
    /\ rangeStr = <<"2", ":", "4", ",", "1", ":", "3">>
    /\ rangeResult.pages = <<1, 2, 3, 4>>

\* C2: resolution is fail-fast. If any segment is invalid the call fails as a
\* whole: no page is returned, also not those of the valid segments before or
\* after it, and the failure quotes the first invalid segment from the left.
C2_FailFast ==
    RangeDone =>
        LET segs == SegmentsOf(rangeStr)
            bad == FirstInvalid(segs)
        IN  (Len(segs) > 0 /\ bad # 0) =>
                /\ ~rangeResult.ok
                /\ rangeResult.pages = <<>>
                /\ rangeResult.error = "InvalidSegment"
                /\ rangeResult.segment = segs[bad]

\* A failure on the second of three segments, with valid segments on both
\* sides of it and pages that those would have contributed
C2_Witness ==
    /\ RangeDone /\ ~rangeResult.ok
    /\ Len(SegmentsOf(rangeStr)) = 3
    /\ FirstInvalid(SegmentsOf(rangeStr)) = 2
    /\ SegmentValid(SegmentsOf(rangeStr)[3])
    /\ SegmentPages(SegmentsOf(rangeStr)[1]) # {}
    /\ rangeResult.segment = SegmentsOf(rangeStr)[2]

\* C3: an interval "A:B" with 1 <= A <= totalPages and B > totalPages resolves
\* without error to exactly the pages A..totalPages (the end is clamped).
C3_EndClamped ==
    (RangeDone /\ IsNumericInterval(rangeStr)
        /\ 1 <= StartOf(rangeStr) /\ StartOf(rangeStr) <= totalPages
        /\ EndOf(rangeStr) > totalPages) =>
        /\ rangeResult.ok
        /\ IsRun(rangeResult.pages, StartOf(rangeStr), totalPages)

\* "1:100" on a document of 10 pages resolves to 1..10
C3_Witness ==
    /\ RangeDone
    /\ rangeStr = <<"1", ":", "1", "0", "0">>
    /\ totalPages = 10
    /\ rangeResult.ok
    /\ rangeResult.pages = <<1, 2, 3, 4, 5, 6, 7, 8, 9, 10>>

\* C4: for totalPages >= 1 a missing start token stands for 1 and a missing
\* end token for totalPages: ":B" resolves as "1:B", "A:" as "A:totalPages" and
\* ":" as "1:totalPages"; so "1:" resolves to exactly 1..totalPages.
C4_MissingTokenDefaults ==
    (RangeDone /\ totalPages >= 1 /\ IsInterval(rangeStr)) =>
        /\ (rangeStr = <<"1", ":">> \/ rangeStr = <<":">>) =>
              rangeResult.ok /\ IsRun(rangeResult.pages, 1, totalPages)
        /\ (BeforeColon(rangeStr) = <<>> /\ AllDigits(AfterColon(rangeStr))
                /\ EndOf(rangeStr) >= 1) =>
              /\ rangeResult.ok
              /\ IsRun(rangeResult.pages, 1, min(EndOf(rangeStr), totalPages))
        /\ (AfterColon(rangeStr) = <<>> /\ AllDigits(BeforeColon(rangeStr))
                /\ 1 <= StartOf(rangeStr) /\ StartOf(rangeStr) <= totalPages) =>
              /\ rangeResult.ok
              /\ IsRun(rangeResult.pages, StartOf(rangeStr), totalPages)

\* The tools' default page_range "1:" on a document of several pages
C4_Witness ==
    /\ RangeDone
    /\ rangeStr = <<"1", ":">>
    /\ totalPages = 3
    /\ rangeResult.pages = <<1, 2, 3>>

\* C5: an interval "A:B" whose tokens are both present page numbers (>= 1) with
\* A > B fails with the range-inverted error and returns no page, for every
\* totalPages, also when A and B both lie inside the document.
C5_InvertedRangeFails ==
    (RangeDone /\ IsNumericInterval(rangeStr)
        /\ EndOf(rangeStr) >= 1 /\ StartOf(rangeStr) > EndOf(rangeStr)) =>
        /\ ~rangeResult.ok
        /\ rangeResult.pages = <<>>
        /\ rangeResult.cause = "RangeInverted"

\* "5:2" on a document that holds both pages
C5_Witness ==
    /\ RangeDone
    /\ rangeStr = <<"5", ":", "2">>
    /\ totalPages = 10
    /\ rangeResult.cause = "RangeInverted"

\* C6: a segment without ':' that denotes the integer n resolves to exactly
\* <<n>> when 1 <= n <= totalPages and fails with the invalid-page-number
\* error otherwise; "0" fails for every totalPages.
C6_SinglePage ==
    (RangeDone /\ AllDigits(trim(rangeStr))) =>
        LET n == DecimalValue(trim(rangeStr)) IN
        IF 1 <= n /\ n <= totalPages
        THEN rangeResult.ok /\ rangeResult.pages = <<n>>
        ELSE /\ ~rangeResult.ok
             /\ rangeResult.pages = <<>>
             /\ rangeResult.cause = "InvalidPageNumber"

\* "100" on a document of 10 pages is rejected
C6_Witness ==
    /\ RangeDone
    /\ rangeStr = <<"1", "0", "0">>
    /\ totalPages = 10
    /\ ~rangeResult.ok
    /\ rangeResult.cause = "InvalidPageNumber"

\* C7: when every segment is valid the result is the ascending sequence of the
\* union of the segments' pages, each page once; permuting the segments or
\* repeating one of them gives the same result.
C7_UnionOfSegments ==
    RangeDone =>
        LET segs == SegmentsOf(rangeStr) IN
        (Len(segs) > 0 /\ FirstInvalid(segs) = 0) =>
            /\ rangeResult.ok
            /\ StrictlyAscending(rangeResult.pages)
            /\ Range(rangeResult.pages) =
                  UNION {SegmentPages(segs[k]) : k \in 1..Len(segs)}
            /\ \A f \in Orderings(Len(segs)) :
                  parsePageRange(join([k \in 1..Len(segs) |-> segs[f[k]]]), totalPages)
                    = rangeResult
            /\ \A k \in 1..Len(segs) :
                  parsePageRange(join(Append(segs, segs[k])), totalPages) = rangeResult

\* "1:3,2:4" on 10 pages: the overlap 2,3 appears once
C7_Witness ==
    /\ RangeDone
    /\ rangeStr = <<"1", ":", "3", ",", "2", ":", "4">>
    /\ totalPages = 10
    /\ rangeResult.pages = <<1, 2, 3, 4>>

\* An interval whose start token is a page number and whose end token is a
\* page number or missing
IsPageInterval(s) ==
    /\ IsInterval(s)
    /\ AllDigits(BeforeColon(s)) /\ StartOf(s) >= 1
    /\ AfterColon(s) = <<>> \/ (AllDigits(AfterColon(s)) /\ EndOf(s) >= 1)

EndGiven(s) == AfterColon(s) # <<>>

\* C22: an interval segment whose start exceeds totalPages fails with the
\* range-out-of-bounds cause, the open-ended form 'A:' with A > totalPages
\* included. (Stated for the intervals whose end is missing or not below the
\* start; an end below the start is the inverted range of C5.)
C22_StartBeyondDocumentFails ==
    (RangeDone /\ IsPageInterval(rangeStr) /\ StartOf(rangeStr) > totalPages
        /\ (EndGiven(rangeStr) => StartOf(rangeStr) <= EndOf(rangeStr))) =>
        /\ ~rangeResult.ok
        /\ rangeResult.cause = "RangeOutOfBounds"

\* The whole trimmed token is a decimal integer >= 1
IsPageToken(t) == AllDigits(trim(t)) /\ DecimalValue(trim(t)) >= 1

\* The page tokens that are present in a segment with at most one ':'
PresentTokens(s) ==
    (IF Count(s, ":") = 0 THEN {trim(s)}
     ELSE {trim(BeforeColon(s)), trim(AfterColon(s))}) \ {<<>>}

\* C26: a page token (single page, start or end) is accepted only when the
\* whole trimmed token is a decimal integer >= 1; a segment with a token that
\* only begins with digits, such as '3x' or '2.5', fails with the invalid
\* page, start or end error.
C26_WholeTokenIntegers ==
    (RangeDone /\ Count(rangeStr, ",") = 0 /\ Count(rangeStr, ":") <= 1
        /\ \E t \in PresentTokens(trim(rangeStr)) : ~IsPageToken(t)) =>
        /\ ~rangeResult.ok
        /\ rangeResult.cause \in {"InvalidPageNumber", "InvalidStart", "InvalidEnd"}

-----------------------------------------------------------------------------
(* Vocabulary of the properties of the search.                             *)

SearchReturned == pc = "returned"

\* The sum of matchCount over a sequence of PageSearchResults
RECURSIVE SumCounts(_)
SumCounts(ms) ==
    IF ms = <<>> THEN 0 ELSE Head(ms).matchCount + SumCounts(Tail(ms))

AllButLast(ms) == SubSeq(ms, 1, Len(ms) - 1)

\* Number of matches of the search pattern in the text of page p
MatchesOnPage(p) ==
    Len(enumerateMatches(pagePlaceholder(p), parseSearchPattern(searchPattern).regex))

\* The fatal path was taken: the outcome carries the aggregate error
Fatal == GeneralError \in Range(outcome.errors)

\* The entries of errors and of matches that belong to page p
ErrorsOfPage(p) == {k \in 1..Len(errors) : errors[k].page = p}

ResultsOfPage(p) == {k \in 1..Len(matches) : matches[k].page = p}

\* The scan of page p is over: a later page is current, or the call returned
ScanOver(p) ==
    \/ pc = "returned"
    \/ \E k \in 1..Len(pageNumbers) : pageNumbers[k] = p /\ k <= i

\* The timer callback of searchWithTimeout is never runnable: whenever no
\* code of the executor is running, the timer is cleared
TimerCallbackNeverRunnable == ~(pc # "enumerating" /\ timerArmed /\ deadlinePassed)

-----------------------------------------------------------------------------
(* Properties of the search.                                               *)

C9_PagesScannedWithinLimit ==
    (SearchReturned /\ ~Fatal /\ maxPagesScanned # Undefined
        /\ maxResults = Undefined) =>
        /\ outcome.pagesScanned <= maxPagesScanned
        /\ (maxPagesScanned = 1 /\ Len(pageNumbers) > 1) =>
              /\ outcome.pagesScanned = 1
              /\ outcome.stoppedReason = "max_pages"
              /\ ~outcome.completed

\* C10: a page whose enumeration had not finished when timeoutMs had elapsed
\* contributes, once its scan is over, exactly one entry to errors and no
\* entry to matches.
C10_OverduePageIsAnError ==
    \A p \in overdue :
        ScanOver(p) => Cardinality(ErrorsOfPage(p)) = 1 /\ ResultsOfPage(p) = {}

\* The entries of a sequence of errors that are tagged with a page
PageErrorCount(es) == Cardinality({k \in 1..Len(es) : es[k].page # 0})

\* The position of page p in pageNumbers
IndexOfPage(p) == CHOOSE k \in 1..Len(pageNumbers) : pageNumbers[k] = p

\* C11: a failure of one page's scan is recovered. The step that handles it
\* appends exactly one error, tagged with the page's number, leaves matches
\* and totalMatches as they were, and goes on to the next page; in every
\* returned outcome the page after a failed page was scanned, and the
\* per-page errors and the PageSearchResults together number at most
\* pagesScanned.
C11_PageFailureRecovered ==
    [][ /\ (pc = "awaiting" /\ promise.state = "rejected") =>
              /\ Len(errors') = Len(errors) + 1
              /\ SubSeq(errors', 1, Len(errors)) = errors
              /\ errors'[Len(errors')].page = pageNum
              /\ matches' = matches
              /\ totalMatches' = totalMatches
              /\ pc' = "loop"
              /\ i' = i + 1
        /\ pc' = "returned" =>
              /\ PageErrorCount(outcome'.errors) + Len(outcome'.matches)
                    <= outcome'.pagesScanned
              /\ \A k \in 1..Len(outcome'.errors) :
                    LET p == outcome'.errors[k].page IN
                    (p # 0 /\ IndexOfPage(p) < Len(pageNumbers)) =>
                        outcome'.pagesScanned > IndexOfPage(p)
      ]_vars

\* Three pages with matches, the scan of the second fails: the outcome has
\* the results of the first and the third page and one error for the second
C11_Witness ==
    /\ SearchReturned
    /\ Len(pageNumbers) = 3
    /\ Len(outcome.errors) = 1
    /\ outcome.errors[1].page = pageNumbers[2]
    /\ Len(outcome.matches) = 2
    /\ outcome.matches[1].page = pageNumbers[1]
    /\ outcome.matches[2].page = pageNumbers[3]
    /\ outcome.pagesScanned = 3

\* C12: an outcome has completed = true exactly when the loop visited every
\* supplied page, no stop condition fired and there was no fatal error; such
\* an outcome has no stoppedReason and pagesScanned equal to the number of
\* supplied pages, whether or not pages recorded errors. An outcome with a
\* stoppedReason has completed = false.
C12_CompletedIffLoopExhausted ==
    SearchReturned =>
        /\ outcome.completed <=>
              /\ outcome.pagesScanned = Len(pageNumbers)
              /\ i = Len(pageNumbers)
              /\ outcome.stoppedReason = "none"
              /\ ~Fatal
        /\ outcome.completed =>
              /\ outcome.stoppedReason = "none"
              /\ outcome.pagesScanned = Len(pageNumbers)
        /\ outcome.stoppedReason # "none" => ~outcome.completed

\* A completed outcome over several pages, one of which recorded an error
C12_Witness ==
    /\ SearchReturned
    /\ outcome.completed
    /\ Len(pageNumbers) > 1
    /\ PageErrorCount(outcome.errors) = 1
    /\ outcome.matches # <<>>
    /\ outcome.pagesScanned = Len(pageNumbers)

\* C13: when text extraction fails as a whole, searchPdfText still returns
\* an outcome: completed = false, no stoppedReason, pagesScanned = 0, no
\* matches and the aggregate error as the only error. No outcome that holds
\* the aggregate error has completed = true.
C13_FatalExtractionReturnsOutcome ==
    [][ /\ (pc = "extract" /\ pc' # "loop") =>
              /\ pc' = "returned"
              /\ outcome' = Outcome(<<>>, <<GeneralError>>, 0, FALSE, "none")
        /\ (pc' = "returned" /\ GeneralError \in Range(outcome'.errors)) =>
              ~outcome'.completed
      ]_vars

\* Extraction failed for a search over several pages
C13_Witness ==
    /\ SearchReturned
    /\ Fatal
    /\ Len(pageNumbers) > 1
    /\ pageTexts = <<>>
    /\ outcome.pagesScanned = 0

\* C14: when the search pattern does not compile, the search fails before
\* any page text is extracted or scanned: searchPdfText throws, no outcome is
\* produced, no page is counted as scanned, and the response of the tool is
\* an error object.
C14_InvalidPatternFailsBeforeScan ==
    ~parseSearchPattern(searchPattern).ok =>
        /\ pc \in {"search_call", "threw"}
        /\ outcome = NoOutcome
        /\ pageTexts = <<>>
        /\ pagesScanned = 0
        /\ promise = NoPromise
        /\ response \in {"none", "error"}
        /\ response = "error" => pc = "threw"

\* '/[/' was rejected and the tool returned the error object
C14_Witness ==
    /\ searchPattern = <<"/", "[", "/">>
    /\ pc = "threw"
    /\ response = "error"
    /\ outcome = NoOutcome

-----------------------------------------------------------------------------
(* The tools get_pdf_text and search_pdf from the range expression on:     *)
(* handleToolCall resolves page_range against the page count of the        *)
(* document and hands the pages to extractTextFromPdf, directly or through *)
(* searchPdfText, which loads the same document.                           *)

\* Single segments, and lists of two segments
ToolRanges ==
    SingleSegments \cup {join(<<a, b>>) : a, b \in ListSegments}

\* Patterns that match on one page only: '2' and '3'
ToolPatterns == { <<"2">>, <<"3">> }

InitTool ==
    /\ \/ pc = "tool_text" /\ searchPattern = <<>> /\ contextChars = 0
       \/ pc = "tool_search" /\ searchPattern \in ToolPatterns /\ contextChars = 150
    /\ rangeStr \in ToolRanges
    /\ totalPages \in 0..MaxDocPages
    /\ rangeResult = NoResult
    /\ pageNumbers = <<>>
    /\ maxResults = Undefined
    /\ maxPagesScanned = Undefined
    /\ SearchIdle
    /\ ContextIdle

\* search_pdf, line 567: the pages go to searchPdfText, or the catch of
\* lines 585-595 takes over
SearchParsePageRange ==
    /\ pc = "tool_search"
    /\ rangeResult' = parsePageRange(rangeStr, totalPages)
    /\ IF rangeResult'.ok
       THEN pageNumbers' = rangeResult'.pages /\ pc' = "search_call"
       ELSE pageNumbers' = pageNumbers /\ pc' = "threw"
    /\ UNCHANGED <<rangeStr, totalPages, contextVars, response, searchPattern,
                   contextChars, maxResults, maxPagesScanned, regex, pageTexts,
                   loopVars, timerVars, outcome>>

\* get_pdf_text, line 522, with the catch of lines 541-551
TextParsePageRange ==
    /\ pc = "tool_text"
    /\ rangeResult' = parsePageRange(rangeStr, totalPages)
    /\ IF rangeResult'.ok
       THEN /\ pageNumbers' = rangeResult'.pages
            /\ pc' = "text_extract"
            /\ response' = response
       ELSE /\ pageNumbers' = pageNumbers
            /\ pc' = "text_done"
            /\ response' = "error"
    /\ UNCHANGED <<rangeStr, totalPages, contextVars, searchPattern,
                   contextChars, maxResults, maxPagesScanned, regex, pageTexts,
                   loopVars, timerVars, outcome>>

\* get_pdf_text, lines 523-540: extractTextFromPdf and the result
TextExtract ==
    /\ pc = "text_extract"
    /\ LET r == extractTextFromPdf(pageNumbers, totalPages) IN
       IF r.ok
       THEN pageTexts' = r.texts /\ response' = "result"
       ELSE pageTexts' = pageTexts /\ response' = "error"
    /\ pc' = "text_done"
    /\ UNCHANGED <<totalPages, rangeVars, contextVars, inputVars, regex,
                   loopVars, timerVars, outcome>>

\* get_pdf_text, line 523 with lines 194 and 220-221: PDFDocument.load
\* rejects, and the catch of lines 541-551 answers
TextExtractFails ==
    /\ pc = "text_extract"
    /\ response' = "error"
    /\ pc' = "text_done"
    /\ UNCHANGED <<totalPages, rangeVars, contextVars, inputVars, regex,
                   pageTexts, loopVars, timerVars, outcome>>

NextTool ==
    \/ SearchParsePageRange
    \/ TextParsePageRange
    \/ TextExtract
    \/ TextExtractFails
    \/ NextSearch

SpecTool == InitTool /\ [][NextTool]_vars

-----------------------------------------------------------------------------
(* Termination. A call is a search (searchPdfText under handleToolCall) or  *)
(* one page scan on any text. The event loop runs every continuation that   *)
(* is ready and an executor runs to its end, so a step that can be taken is *)
(* eventually taken; nothing is assumed about the deadline elapsing.        *)

InitCall == InitSearch \/ InitScan

NextCall == NextSearch \/ NextScan

\* Weak fairness of every step that carries a call forward. An executor's
\* run ends by resolving or by rejecting, and the extraction by returning or
\* by throwing. The steps that compile the pattern and run a single scan are
\* enabled exactly at their position and always leave it, so their weak
\* fairness is that the call does not stay at that position for ever.
CallFairness ==
    /\ []<>(pc # "search_call")
    /\ []<>(pc # "scan_call")
    /\ []<>(pc # "scan_compiled")
    /\ WF_vars(ExtractTextFails \/ CallExtractText)
    /\ WF_vars(StartPage)
    /\ WF_vars(EnumerationThrows \/ EnumerationCompletes)
    /\ WF_vars(ResumeRejected)
    /\ WF_vars(ResumeResolved)
    /\ WF_vars(LoopExit)

SpecCallFair == InitCall /\ [][NextCall]_vars /\ CallFairness

-----------------------------------------------------------------------------
(* extractContext on its own.                                              *)

\* The texts 'a', 'ab', 'abc', ... and the empty text
ContextTexts == {SubSeq(LowerCase, 1, n) : n \in 0..MaxTextLen}

\* The spans 0 <= matchStart <= matchEnd <= text.length
SpansOf(text) ==
    { sp \in [matchStart : 0..Len(text), matchEnd : 0..Len(text)] :
        sp.matchStart <= sp.matchEnd }

InitContext ==
    /\ pc = "context_call"
    /\ scanText \in ContextTexts
    /\ matchSpan \in SpansOf(scanText)
    /\ contextChars \in 0..MaxContext
    /\ snippet = NoSnippet
    /\ response = "none"
    /\ rangeStr = <<>>
    /\ rangeResult = NoResult
    /\ totalPages = 0
    /\ pageNumbers = <<>>
    /\ searchPattern = <<>>
    /\ maxResults = Undefined
    /\ maxPagesScanned = Undefined
    /\ SearchIdle

\* line 371: extractContext(pageText, matchStart, matchEnd, contextChars)
CallExtractContext ==
    /\ pc = "context_call"
    /\ snippet' = extractContext(scanText, matchSpan.matchStart,
                                 matchSpan.matchEnd, contextChars)
    /\ pc' = "context_done"
    /\ UNCHANGED <<totalPages, rangeVars, searchVars, response, scanText, matchSpan>>

NextContext == CallExtractContext

SpecContext == InitContext /\ [][NextContext]_vars

\* The scan of the k-th supplied page has finished: with matches, without
\* matches, or with an error
ScanFinished(k) ==
    /\ k <= i
    /\ \/ ResultsOfPage(pageNumbers[k]) # {}
       \/ ErrorsOfPage(pageNumbers[k]) # {}
       \/ MatchesOnPage(pageNumbers[k]) = 0

\* C19: pages are scanned one at a time in ascending page-number order. A
\* scan starts only when no scan is in flight and the scan of every smaller
\* page of the set has finished; the matches sequence is strictly ascending
\* by page number, during the search and in the outcome, so no page appears
\* twice.
C19_PagesScannedInAscendingOrder ==
    [][ /\ pagesScanned' = pagesScanned + 1 =>
              /\ promise.state = "none"
              /\ promise'.state = "pending"
              /\ \A k \in 1..Len(pageNumbers) :
                    pageNumbers[k] < pageNumbers[i + 1] => ScanFinished(k)
              /\ \A k \in 1..Len(matches) : matches[k].page < pageNumbers[i + 1]
        /\ promise'.state # "none" => pc' \in {"enumerating", "awaiting"}
        /\ \A k \in 1..(Len(matches') - 1) :
              matches'[k].page < matches'[k + 1].page
        /\ pc' = "returned" =>
              \A k \in 1..(Len(outcome'.matches) - 1) :
                  outcome'.matches[k].page < outcome'.matches[k + 1].page
      ]_vars

\* The scan of the third page is running after the first page gave matches
\* and the second an error
C19_Witness ==
    /\ pc = "enumerating"
    /\ i = 2
    /\ Len(matches) = 1
    /\ matches[1].page = pageNumbers[1]
    /\ Len(errors) = 1
    /\ errors[1].page = pageNumbers[2]
    /\ pageNumbers[1] < pageNumbers[2]
    /\ pageNumbers[2] < pageNumbers[3]

C21_MaxResultsCheckedFirst ==
    [][ /\ (/\ pc = "awaiting"
            /\ pc' # "awaiting"
            /\ maxResults # Undefined
            /\ maxPagesScanned # Undefined
            /\ totalMatches' >= maxResults
            /\ pagesScanned' >= maxPagesScanned) =>
              /\ pc' = "returned"
              /\ outcome'.stoppedReason = "max_results"
              /\ ~outcome'.completed
        /\ (pc' = "returned" /\ outcome'.stoppedReason = "max_pages") =>
              (maxResults # Undefined =>
                    SumCounts(outcome'.matches) < maxResults)
      ]_vars

\* Both limits are 1 and the first page has matches
C21_Witness ==
    /\ SearchReturned
    /\ maxResults = 1
    /\ maxPagesScanned = 1
    /\ Len(pageNumbers) > 1
    /\ outcome.pagesScanned = 1
    /\ SumCounts(outcome.matches) >= 1
    /\ outcome.stoppedReason = "max_results"

-----------------------------------------------------------------------------
(* Properties of one page scan.                                            *)

ScanDone == pc = "scan_done"

EqualsIgnoringCase(a, b) ==
    /\ Len(a) = Len(b)
    /\ \A k \in 1..Len(a) : toLowerCase(a[k]) = toLowerCase(b[k])

\* The pattern string stands in the text at offset p, letter case ignored
OccursAt(text, pattern, p) ==
    /\ p + Len(pattern) <= Len(text)
    /\ EqualsIgnoringCase(SubSeq(text, p + 1, p + Len(pattern)), pattern)

\* The occurrences of the pattern string from offset p on, left to right,
\* each starting where the one before has ended or later
RECURSIVE OccurrencesFrom(_, _, _)
OccurrencesFrom(text, pattern, p) ==
    IF p + Len(pattern) > Len(text) THEN <<>>
    ELSE IF OccursAt(text, pattern, p)
    THEN <<[index |-> p, end |-> p + Len(pattern)]>>
            \o OccurrencesFrom(text, pattern, p + Len(pattern))
    ELSE OccurrencesFrom(text, pattern, p + 1)

\* The maximal runs of decimal digits of the text
DigitRuns(text) ==
    { r \in [index : 0..Len(text), end : 0..Len(text)] :
        /\ r.index < r.end
        /\ \A k \in (r.index + 1)..r.end : text[k] \in DigitChars
        /\ r.index > 0 => text[r.index] \notin DigitChars
        /\ r.end < Len(text) => text[r.end + 1] \notin DigitChars }

\* C15: one page scan returns at most 10,000 matches, for every text and
\* every pattern that compiles.
C15_AtMostTenThousandMatches ==
    ScanDone => Len(promise.matches) <= 10000

\* C17: a pattern that is not in wrapper form is searched as literal text,
\* letter case ignored and every metacharacter taken literally: the matches
\* are the occurrences of the pattern string in the text, from left to
\* right without overlap, and every place where the pattern string stands
\* lies within a match. 'a.b' in 'a.b and axb' matches at offset 0 only.
C17_LiteralPatternMatchesLiterally ==
    (ScanDone /\ ~isWrapped(searchPattern)) =>
        /\ promise.matches = OccurrencesFrom(scanText, searchPattern, 0)
        /\ \A p \in 0..Len(scanText) :
              OccursAt(scanText, searchPattern, p) =>
                  \E k \in 1..Len(promise.matches) :
                      promise.matches[k].index <= p /\ p < promise.matches[k].end
        /\ (searchPattern = <<"a", ".", "b">>
                /\ scanText = <<"a", ".", "b", " ", "a", "n", "d", " ", "a", "x", "b">>) =>
              promise.matches = <<[index |-> 0, end |-> 3]>>

\* 'a.b' was searched in 'a.b and axb' and 'A.B' in 'A.B a.b'
C17_Witness ==
    /\ ScanDone
    /\ \/ /\ searchPattern = <<"a", ".", "b">>
          /\ scanText = <<"a", ".", "b", " ", "a", "n", "d", " ", "a", "x", "b">>
          /\ Len(promise.matches) = 1
       \/ /\ searchPattern = <<"A", ".", "B">>
          /\ scanText = <<"A", ".", "B", " ", "a", ".", "b">>
          /\ Len(promise.matches) = 2

\* The text 'p1 has 42 and 7' and the pattern '/\d+/g'
DigitsExampleText ==
    <<"p", "1", " ", "h", "a", "s", " ", "4", "2", " ", "a", "n", "d", " ", "7">>

DigitsExamplePattern == <<"/", "\\", "d", "+", "/", "g">>

\* C18 as stated: '/\d+/g' scanned over 'p1 has 42 and 7' finds exactly two
\* matches, each with the offsets of the matched digits in the text.
C18_TwoMatches ==
    (ScanDone /\ searchPattern = DigitsExamplePattern
        /\ scanText = DigitsExampleText) =>
        /\ Len(promise.matches) = 2
        /\ \A k \in 1..Len(promise.matches) : promise.matches[k] \in DigitRuns(scanText)

\* C18 as amended: '/\d+/g' scanned over 'p1 has 42 and 7' finds exactly three
\* matches, the 1 of 'p1' at offsets 1..2, 42 at 7..9 and 7 at 14..15; on
\* every text the matches of '/\d+/g' are the maximal runs of digits, in the
\* order of the text, each with the offsets of its digits.
C18_MatchesAreTheDigitRuns ==
    (ScanDone /\ searchPattern = DigitsExamplePattern) =>
        /\ {promise.matches[k] : k \in 1..Len(promise.matches)} = DigitRuns(scanText)
        /\ \A k \in 1..(Len(promise.matches) - 1) :
              promise.matches[k].end <= promise.matches[k + 1].index
        /\ scanText = DigitsExampleText =>
              promise.matches = << [index |-> 1, end |-> 2],
                                   [index |-> 7, end |-> 9],
                                   [index |-> 14, end |-> 15] >>

\* '/\d+/g' was scanned over 'p1 has 42 and 7' and found three matches
C18_Witness ==
    /\ ScanDone
    /\ searchPattern = DigitsExamplePattern
    /\ scanText = DigitsExampleText
    /\ Len(promise.matches) = 3

-----------------------------------------------------------------------------
(* Properties of extractContext.                                           *)

ContextDone == pc = "context_done"

\* C16: for every text, every match with 0 <= matchStart <= matchEnd <=
\* len(text) and every contextChars >= 0, the snippet is the text from
\* max(0, matchStart - contextChars) to min(len(text), matchEnd + contextChars),
\* the snippet between the returned offsets is the text between matchStart
\* and matchEnd, 0 <= matchStartInSnippet <= contextChars and
\* matchEndInSnippet <= len(snippet).
C16_SnippetWindow ==
    ContextDone =>
        LET ms == matchSpan.matchStart
            me == matchSpan.matchEnd
            lo == IF ms - contextChars < 0 THEN 0 ELSE ms - contextChars
            hi == IF me + contextChars > Len(scanText)
                  THEN Len(scanText) ELSE me + contextChars
        IN  /\ snippet.snippet = [k \in 1..(hi - lo) |-> scanText[lo + k]]
            /\ snippet.matchStartInSnippet >= 0
            /\ snippet.matchStartInSnippet <= contextChars
            /\ snippet.matchStartInSnippet <= snippet.matchEndInSnippet
            /\ snippet.matchEndInSnippet <= Len(snippet.snippet)
            /\ SubSeq(snippet.snippet, snippet.matchStartInSnippet + 1,
                      snippet.matchEndInSnippet)
                 = SubSeq(scanText, ms + 1, me)

\* A match with more text before it than contextChars and less after it
C16_Witness ==
    /\ ContextDone
    /\ contextChars > 0
    /\ matchSpan.matchStart > contextChars
    /\ matchSpan.matchStart < matchSpan.matchEnd
    /\ matchSpan.matchEnd + contextChars > Len(scanText)
    /\ matchSpan.matchEnd < Len(scanText)
    /\ snippet.matchStartInSnippet = contextChars
    /\ Len(snippet.snippet) < Len(scanText)

\* C23: the matches of one page scan do not overlap and the enumeration
\* advances: each match starts at or after the end of the match before it
\* and at a strictly greater offset, for every pattern, those without the g
\* flag and those that can match the empty string ('/a*/') included.
C23_MatchesAdvance ==
    ScanDone =>
        \A k \in 1..(Len(promise.matches) - 1) :
            /\ promise.matches[k].end <= promise.matches[k + 1].index
            /\ promise.matches[k].index < promise.matches[k + 1].index

-----------------------------------------------------------------------------
(* Properties of termination.                                              *)

\* The four ways a search ends
EndsCompleted ==
    pc = "returned" /\ outcome.completed /\ outcome.stoppedReason = "none" /\ ~Fatal

EndsStoppedEarly ==
    pc = "returned" /\ ~outcome.completed
        /\ outcome.stoppedReason \in {"max_results", "max_pages"} /\ ~Fatal

EndsFatal ==
    pc = "returned" /\ ~outcome.completed /\ outcome.stoppedReason = "none" /\ Fatal

EndsInvalidPattern ==
    pc = "threw" /\ outcome = NoOutcome /\ ~parseSearchPattern(searchPattern).ok

SearchEnded == pc \in {"returned", "threw"}

ScanEnded == pc \in {"scan_done", "scan_threw"}

\* Each supplied page is taken at most once
EachPageVisitedOnce ==
    /\ pagesScanned <= Len(pageNumbers)
    /\ i <= pagesScanned
    /\ pagesScanned <= i + 1
    /\ \A p \in Range(pageNumbers) :
          Cardinality(ErrorsOfPage(p)) + Cardinality(ResultsOfPage(p)) <= 1

\* C24: every search over a finite page set eventually returns and every
\* page scan ends, for every pattern and text, those with zero-width matches
\* included; each page is visited at most once; a search ends in exactly one
\* of: completed outcome, early-stop outcome, fatal-error outcome,
\* invalid-pattern failure.
C24_EverySearchReturns ==
    /\ <>(SearchEnded \/ ScanEnded)
    /\ [](EachPageVisitedOnce)
    /\ [](SearchEnded =>
            Cardinality({k \in 1..4 :
                <<EndsCompleted, EndsStoppedEarly, EndsFatal, EndsInvalidPattern>>[k]}) = 1)
    /\ [](pc = "scan_done" => promise.state = "resolved")

\* A search over three pages has visited each of them and returned to the
\* tool, which has answered
C24_Witness ==
    /\ EndsCompleted
    /\ response = "result"
    /\ Len(pageNumbers) = 3
    /\ outcome.pagesScanned = 3
    /\ i = 3

-----------------------------------------------------------------------------
(* Properties of the tools.                                                *)

\* C25: on the search_pdf and get_pdf_text paths the validity filter of
\* extractTextFromPdf removes no page of what parsePageRange resolved, so
\* extraction never fails for want of a valid page, there are as many texts
\* as resolved pages, the i-th text is the text of the i-th page, and every
\* PageSearchResult carries the snippets of the text of its own page.
C25_TextsAlignedWithPages ==
    /\ rangeResult.ok =>
          /\ pageNumbers = rangeResult.pages
          /\ validPages(pageNumbers, totalPages) = pageNumbers
          /\ extractTextFromPdf(pageNumbers, totalPages).ok
    /\ pageTexts # <<>> =>
          /\ Len(pageTexts) = Len(pageNumbers)
          /\ \A k \in 1..Len(pageTexts) :
                pageTexts[k] = pagePlaceholder(pageNumbers[k])
    /\ \A k \in 1..Len(matches) :
          LET ownText == pagePlaceholder(matches[k].page) IN
          /\ matches[k].snippets =
                snippetsOf(ownText, enumerateMatches(ownText, regex), contextChars)
          /\ matches[k].matchCount = Len(matches[k].snippets)
    /\ (pc = "text_done" /\ response = "result") =>
          Len(pageTexts) = Len(pageNumbers)

\* search_pdf for '3' with page_range '2:' on three pages: the one result is
\* that of page 3, the second of the resolved pages
C25_Witness ==
    /\ pc = "returned"
    /\ rangeStr = <<"2", ":">>
    /\ totalPages = 3
    /\ searchPattern = <<"3">>
    /\ pageNumbers = <<2, 3>>
    /\ Len(pageTexts) = 2
    /\ Len(outcome.matches) = 1
    /\ outcome.matches[1].page = 3

=============================================================================
